---- MODULE Spec2Model ----
(***************************************************************************)
(* pyAL: the moth olfactory network of runMothLearnerMNIST.py.             *)
(*                                                                         *)
(* The module models initializeConnectionMatrices                          *)
(* (src/support_functions/connect_mat.py) statement group by statement     *)
(* group, the run loop of src/runMothLearnerMNIST.py around it, and the    *)
(* time-step simulator the run loop calls.                                 *)
(*                                                                         *)
(* Numbers.  The code works on floats; the model works on exact rationals  *)
(* kept as integers over a known denominator:                              *)
(*   - a draw of numpy.random.rand, a value of [0,1), is r/RandDen with    *)
(*     r in 0..RandDen-1;                                                  *)
(*   - a probability or fraction parameter p is p/ProbDen;                 *)
(*   - a weight "mu + std*rand" is stored as mu*RandDen + std*r, in units  *)
(*     of 1/RandDen; a product of k such weights is in units 1/RandDen^k.  *)
(* Sign, zero-ness and order are those of the floats.                      *)
(***************************************************************************)
EXTENDS Integers, Sequences, FiniteSets, TLC

\* ------------------------------------------------------------- bounds
MaxNR == 2      \* receptor rows of F2R
MaxNF == 2      \* feature columns of F2R
MaxNG == 2      \* glomeruli: L2G is nG x nG
MaxNK == 2      \* Kenyon cells: P2K is nK x nP
MaxNP == 1      \* projection neurons
MaxRaw == 2     \* RperFRawNum, the fixed fan-out of a feature
RandDen == 2    \* resolution of a draw of rand: r/RandDen, r in 0..RandDen-1
ProbDen == 2    \* resolution of a probability parameter: p/ProbDen
PreSteps == 1   \* time steps of the pre-training phase
TrainSteps == 2 \* time steps of the training phase
PostSteps == 1  \* time steps of the post-training phase
DriftMax == 1   \* the largest |dt * f| of one update
RateMax == 1    \* the sanity bound of a firing rate

Rand == 0 .. (RandDen - 1)

\* ------------------------------------------------------------ helpers
Cells(n, m) == (1 .. n) \X (1 .. m)

Max(a, b) == IF a >= b THEN a ELSE b
Min(a, b) == IF a <= b THEN a ELSE b

\* numpy clip(min=lo), clip(max=hi), elementwise
ClipMin(v, lo) == Max(v, lo)
ClipMax(v, hi) == Min(v, hi)

\* np.ceil(a / b) for b > 0
CeilDiv(a, b) == - ((- a) \div b)

\* "r.rand(...) < p": the draw r/RandDen against the probability p/ProbDen
RandLess(r, p) == r * ProbDen < p * RandDen

\* mu + std * rand, in units of 1/RandDen
Gauss(mu, std, r) == mu * RandDen + std * r

RECURSIVE SumOver(_, _)
SumOver(f, S) ==
    IF S = {} THEN 0
    ELSE LET c == CHOOSE x \in S : TRUE IN f[c] + SumOver(f, S \ {c})

\* row.sum() of row i of an n x m matrix
RowSum(M, i, m) == SumOver([j \in 1 .. m |-> M[<<i, j>>]], 1 .. m)

\* An elementwise expression over a fresh r.rand(...) is given as a table:
\* entry[c, r] is what cell c holds when its own draw is r.
CellsOf(entry) == { x[1] : x \in DOMAIN entry }

\* the cells whose value depends on the draw
Free(entry) ==
    { c \in CellsOf(entry) : \E r \in Rand : entry[c, r] # entry[c, 0] }

\* the draws that give some cell a value no smaller draw gives it: over
\* these draws every cell takes every value it can take
Reps(entry) ==
    { r \in Rand : \E c \in Free(entry) :
                      \A q \in 0 .. (r - 1) : entry[c, q] # entry[c, r] }

\* one draw for each cell that depends on it
Draws(entry) == [Free(entry) -> Reps(entry)]

\* the array the draws rnd give
Fill(entry, rnd) ==
    [c \in CellsOf(entry) |-> IF c \in DOMAIN rnd THEN entry[c, rnd[c]]
                              ELSE entry[c, 0]]

\* M is an array the expression can take
Draw(M, entry) == \E rnd \in Draws(entry) : M = Fill(entry, rnd)

VARIABLES
    mP,             \* the ModelParams scalars (never written)
    pc,             \* the statement group initializeConnectionMatrices is at
    err,            \* the exception that ended it, "" if none
    F2Rbinary,      \* mP.F2Rbinary, nR x nF
    counts,         \* counts, nR x 1 (fixed fan-in mode)
    i, j,           \* the loop indices of lines 29 and 44-45 (0-based)
    F2R,            \* mP.F2R
    Rspont, R2G, R2P, R2L, R2PIcol,
    L2G, numZero, numToKill, L2GgabaSens,
    L2R, L2P, L2L, L2PI,
    P2KconnMatrix, P2K,
    step,           \* the statement group the run loop of the script is at
    run,            \* the loop index of line 192
    paramsDir,      \* whether the folder save_params_folder exists
    paramsPkl,      \* whether modelParams.pkl has been written
    K2EconnMatrix, K2E,
    expP,           \* the experiment timeline: the first step of each phase
    t, lay,         \* the time step and the layer the simulator is at
    rate,           \* the firing rates, per layer and neuron
    raw,            \* the rates of the layer last updated, before the clip
    octo,           \* whether octopamine was active in the update last made
    qP,             \* val_per_class, tr_per_class, num_sniffs, the index pools
    digitQueues,    \* per class, the sample index each column holds
    trainX, valX,   \* per class, the sample indices of the rows of the class
    cls,            \* the loop index of lines 198 and 244
    enResp,         \* the EN responses view_EN_resp extracts from simResults
    heap,           \* the response records, by object identity
    respOrig,       \* the list respOrig: the identities of its records
    respNaive,      \* the list respNaive: the identities of its records
    ri,             \* the loop index of line 330
    outputs         \* the classifier outputs, by the name of lines 337-349

featVars == <<F2Rbinary, counts, i, j, F2R>>
recVars == <<Rspont, R2G, R2P, R2L, R2PIcol>>
latVars == <<L2G, numZero, numToKill, L2GgabaSens, L2R, L2P, L2L, L2PI>>
kcVars == <<P2KconnMatrix, P2K>>
simVars == <<K2EconnMatrix, K2E, expP, t, lay, rate, raw, octo>>
queueVars == <<qP, digitQueues, trainX, valX, cls>>
respVars == <<enResp, heap, respOrig, respNaive, ri, outputs>>
runVars == <<step, run, paramsDir, paramsPkl, simVars, queueVars, respVars>>
vars == <<mP, pc, err, featVars, recVars, latVars, kcVars, runVars>>

\* -------------------------------------------------------- ModelParams
\* One valid ModelParams in which every draw is deterministic (every std is
\* 0, every probability is 1).  The input families below vary the scalars a
\* statement group reads, so that its draws are explored in full.
Base ==
    [ nR |-> 1, nF |-> 1, nG |-> 1, nK |-> 1, nP |-> 1,
      RperFFrMu |-> ProbDen, RperSFrMu |-> ProbDen,
      makeFeaturesOrthogonalFlag |-> FALSE, RperFRawNum |-> 1,
      F2Rmu |-> 1, F2Rstd |-> 0,
      spontRdistFlag |-> 1, spontRmu |-> 1, spontRstd |-> 0, spontRbase |-> 0,
      R2Gmu |-> 1, R2Gstd |-> 0,
      R2Pmult |-> 1, R2Pstd |-> 0, R2Lmult |-> 1, R2Lstd |-> 0,
      R2PImult |-> 1, R2PIstd |-> 0,
      L2Gmu |-> 1, L2Gstd |-> 0, L2Gfr |-> ProbDen,
      GsensMu |-> 1, GsensStd |-> 0,
      L2Rmult |-> 1, L2Rstd |-> 0, L2Pmult |-> 1, L2Pstd |-> 0,
      L2Lmult |-> 1, L2Lstd |-> 0, L2PIstd |-> 0,
      KperPfrMu |-> ProbDen, P2Kmu |-> 1, P2Kstd |-> 0, hebMaxPK |-> 1,
      nE |-> 1, KperEfrMu |-> ProbDen, K2Emu |-> 1, K2Estd |-> 0,
      hebMaxKE |-> 1 ]

\* mean and std pairs: a mean below, at and above 0, a std of 0 and stds that
\* can and cannot lift a negative mean above 0
MuStd == { <<-1, 0>>, <<-1, 1>>, <<-1, 3>>, <<0, 0>>, <<0, 1>>, <<1, 0>>, <<1, 1>> }

\* Bernoulli mode of the feature-to-receptor mask (RperFFrMu > 0): every
\* mask of every size with noiseless weights, and the noisy weights on the
\* masks of one receptor row (line 53 is elementwise)
FeatBernoulli ==
    { [Base EXCEPT !.nR = n, !.nF = m, !.RperSFrMu = p,
                   !.makeFeaturesOrthogonalFlag = o, !.F2Rmu = mu] :
        n \in 1 .. MaxNR, m \in 1 .. MaxNF, p \in 0 .. ProbDen,
        o \in BOOLEAN, mu \in {-1, 0, 1} }
    \cup { [Base EXCEPT !.nF = m, !.RperSFrMu = p,
                        !.F2Rmu = ms[1], !.F2Rstd = ms[2]] :
        m \in 1 .. MaxNF, p \in 0 .. ProbDen, ms \in MuStd }

\* fixed fan-in mode (RperFFrMu <= 0)
FeatFixed ==
    { [Base EXCEPT !.RperFFrMu = 0, !.nR = n, !.nF = m, !.RperFRawNum = k,
                   !.F2Rmu = mu] :
        n \in 1 .. MaxNR, m \in 1 .. MaxNF, k \in 1 .. MaxRaw, mu \in {0, 1} }

\* the spontaneous rates: Gaussian (flag 1) or gamma
SpontFam ==
    { [Base EXCEPT !.nG = n, !.spontRdistFlag = f, !.spontRmu = ms[1],
                   !.spontRstd = ms[2], !.spontRbase = b] :
        n \in 1 .. MaxNG, f \in {1, 2}, ms \in MuStd, b \in {-1, 0, 1} }

\* the receptor vectors R2G, R2P, R2L, R2PIcol, one mean and std at a time
ReceptorFam ==
    { [Base EXCEPT !.nG = n, !.R2Gmu = ms[1], !.R2Gstd = ms[2]] :
        n \in 1 .. MaxNG, ms \in MuStd }
    \cup { [Base EXCEPT !.nG = n, !.R2Pmult = ms[1], !.R2Pstd = ms[2]] :
        n \in 1 .. MaxNG, ms \in MuStd }
    \cup { [Base EXCEPT !.nG = n, !.R2Lmult = ms[1], !.R2Lstd = ms[2]] :
        n \in 1 .. MaxNG, ms \in MuStd }
    \cup { [Base EXCEPT !.nG = n, !.R2PImult = ms[1], !.R2PIstd = ms[2]] :
        n \in 1 .. MaxNG, ms \in MuStd }

\* the lateral matrix L2G and its target fraction, and its final scale
LateralFam ==
    { [Base EXCEPT !.nG = n, !.L2Gmu = ms[1], !.L2Gstd = ms[2], !.L2Gfr = fr] :
        n \in 1 .. MaxNG, ms \in MuStd, fr \in 0 .. ProbDen }
    \cup { [Base EXCEPT !.nG = n, !.L2Gfr = fr, !.GsensMu = g] :
        n \in 1 .. MaxNG, fr \in 0 .. ProbDen, g \in {-1, 0} }

\* the GABA sensitivities and the matrices derived from L2G, one at a time
DerivedFam ==
    { [Base EXCEPT !.nG = n, !.L2Gfr = fr, !.GsensMu = ms[1],
                   !.GsensStd = ms[2]] :
        n \in 1 .. MaxNG, fr \in 0 .. ProbDen, ms \in MuStd }
    \cup { [Base EXCEPT !.nG = n, !.L2Gfr = fr, !.L2Rmult = ms[1],
                        !.L2Rstd = ms[2]] :
        n \in 1 .. MaxNG, fr \in 0 .. ProbDen, ms \in MuStd }
    \cup { [Base EXCEPT !.nG = n, !.L2Gfr = fr, !.L2Pmult = ms[1],
                        !.L2Pstd = ms[2]] :
        n \in 1 .. MaxNG, fr \in 0 .. ProbDen, ms \in MuStd }
    \cup { [Base EXCEPT !.nG = n, !.L2Gfr = fr, !.L2Lmult = ms[1],
                        !.L2Lstd = ms[2]] :
        n \in 1 .. MaxNG, fr \in 0 .. ProbDen, ms \in MuStd }
    \cup { [Base EXCEPT !.nG = n, !.L2Gfr = fr, !.L2Lmult = ms[1],
                        !.L2PIstd = ms[2]] :
        n \in 1 .. MaxNG, fr \in 0 .. ProbDen, ms \in MuStd }

\* the projection-neuron to Kenyon-cell weights and their ceiling
KenyonFam ==
    { [Base EXCEPT !.nK = n, !.nP = m, !.KperPfrMu = p, !.P2Kmu = ms[1],
                   !.P2Kstd = ms[2], !.hebMaxPK = h] :
        n \in 1 .. MaxNK, m \in 1 .. MaxNP, p \in 0 .. ProbDen,
        ms \in MuStd \cup {<<2, 1>>}, h \in {-1, 0, 1, 2} }

\* what the specification calls a well-formed ModelParams: positive layer
\* sizes, probabilities in [0,1], no negative std
Valid(p) ==
    /\ p.nR > 0 /\ p.nF > 0 /\ p.nG > 0 /\ p.nK > 0 /\ p.nP > 0
    /\ p.nE > 0
    /\ \A q \in {p.RperFFrMu, p.RperSFrMu, p.L2Gfr, p.KperPfrMu,
                 p.KperEfrMu} : 0 <= q /\ q <= ProbDen
    /\ \A s \in {p.F2Rstd, p.spontRstd, p.R2Gstd, p.R2Pstd, p.R2Lstd,
                 p.R2PIstd, p.L2Gstd, p.GsensStd, p.L2Rstd, p.L2Pstd,
                 p.L2Lstd, p.L2PIstd, p.P2Kstd, p.K2Estd} : s >= 0

\* malformed ModelParams: one scalar of Base out of range
Malformed ==
    { [Base EXCEPT !.nR = n, !.RperFFrMu = f] : n \in {-1, 0}, f \in {0, ProbDen} }
    \cup { [Base EXCEPT !.nG = n] : n \in {-1, 0} }
    \cup { [Base EXCEPT !.nK = n] : n \in {-1, 0} }
    \cup { [Base EXCEPT !.RperSFrMu = q] : q \in {-1, ProbDen + 1} }
    \cup { [Base EXCEPT !.RperFFrMu = q] : q \in {-1, ProbDen + 1} }
    \cup { [Base EXCEPT !.KperPfrMu = q] : q \in {-1, ProbDen + 1} }
    \cup { [Base EXCEPT !.nG = MaxNG, !.L2Gfr = q] : q \in {-1, ProbDen + 1} }
    \cup { [Base EXCEPT !.F2Rstd = -1], [Base EXCEPT !.R2Gstd = -1],
           [Base EXCEPT !.L2Gstd = -1], [Base EXCEPT !.P2Kstd = -1],
           [Base EXCEPT !.spontRstd = -1],
           [Base EXCEPT !.spontRstd = -1, !.spontRdistFlag = 2] }

ParamSpace ==
    FeatBernoulli \cup FeatFixed \cup SpontFam \cup ReceptorFam
    \cup LateralFam \cup DerivedFam \cup KenyonFam \cup Malformed

NoMat == << >>

\* nothing is attached to the ModelParams yet
NoMatrices ==
    /\ err = ""
    /\ F2Rbinary = NoMat /\ counts = NoMat /\ i = 0 /\ j = 0 /\ F2R = NoMat
    /\ Rspont = NoMat /\ R2G = NoMat /\ R2P = NoMat /\ R2L = NoMat
    /\ R2PIcol = NoMat
    /\ L2G = NoMat /\ numZero = 0 /\ numToKill = 0 /\ L2GgabaSens = NoMat
    /\ L2R = NoMat /\ L2P = NoMat /\ L2L = NoMat /\ L2PI = NoMat
    /\ P2KconnMatrix = NoMat /\ P2K = NoMat
    /\ K2EconnMatrix = NoMat /\ K2E = NoMat

\* the simulator has not started
NoSim ==
    /\ expP = NoMat /\ t = 0 /\ lay = 1 /\ rate = NoMat /\ raw = NoMat
    /\ octo = FALSE

\* no digit queue is built yet
NoQueue ==
    /\ digitQueues = NoMat /\ trainX = NoMat /\ valX = NoMat /\ cls = 0

\* no response record exists yet
NoResp ==
    /\ heap = NoMat /\ respOrig = NoMat /\ respNaive = NoMat /\ ri = 0
    /\ outputs = NoMat

\* initializeConnectionMatrices is entered with a ModelParams
Init ==
    /\ mP \in ParamSpace
    /\ pc = "mask"
    /\ step = "conn" /\ run = 0 /\ paramsDir = FALSE /\ paramsPkl = FALSE
    /\ NoMatrices
    /\ NoSim
    /\ qP = NoMat /\ NoQueue
    /\ enResp = NoMat /\ NoResp

\* an exception leaves initializeConnectionMatrices: nothing more is assigned
Raise(e) == pc' = "raised" /\ err' = e

\* ------------------------------------------------ lines 23-49: F2Rbinary
\* line 25: r.rand(nR, nF) < RperSFrMu.  A negative dimension is a ValueError.
\* Without the orthogonalisation the mask is final; with it the row loop
\* of line 29 starts at row 0.
MaskBernoulli ==
    /\ pc = "mask" /\ mP.RperFFrMu > 0
    /\ IF mP.nR < 0 \/ mP.nF < 0
       THEN Raise("ValueError") /\ UNCHANGED F2Rbinary
       ELSE /\ Draw(F2Rbinary', [c \in Cells(mP.nR, mP.nF), r \in Rand |->
                                    IF RandLess(r, mP.RperSFrMu) THEN 1 ELSE 0])
            /\ pc' = IF mP.makeFeaturesOrthogonalFlag THEN "ortho" ELSE "F2R"
            /\ err' = err
    /\ UNCHANGED <<mP, runVars, counts, i, j, F2R, recVars, latVars, kcVars>>

\* lines 29-35, one row of the loop.  For a row with more than one active
\* entry line 33 calls r.rand(1, c) with c the tuple np.where returns: rand
\* takes integers, so the call raises TypeError and lines 34-35 never run.
\* A row with at most one active entry is left as it is.
OrthoRow ==
    /\ pc = "ortho"
    /\ IF i >= mP.nR
       THEN pc' = "F2R" /\ UNCHANGED <<err, i>>
       ELSE IF RowSum(F2Rbinary, i + 1, mP.nF) > 1
            THEN Raise("TypeError") /\ UNCHANGED i
            ELSE i' = i + 1 /\ UNCHANGED <<pc, err>>
    /\ UNCHANGED <<mP, runVars, F2Rbinary, counts, j, F2R, recVars, latVars, kcVars>>

\* line 42: maxFperR = np.ceil(nF * RperFRawNum / nR)
maxFperR(p) == CeilDiv(p.nF * p.RperFRawNum, p.nR)

\* lines 39-42: the zero mask, the zero counts and the cap.  nR = 0 divides
\* by zero at line 42.
MaskFixedInit ==
    /\ pc = "mask" /\ mP.RperFFrMu <= 0
    /\ IF mP.nR < 0 \/ mP.nF < 0
       THEN Raise("ValueError") /\ UNCHANGED <<F2Rbinary, counts>>
       ELSE IF mP.nR = 0
            THEN /\ Raise("ZeroDivisionError")
                 /\ F2Rbinary' = [c \in Cells(mP.nR, mP.nF) |-> 0]
                 /\ counts' = [r \in 1 .. mP.nR |-> 0]
            ELSE /\ F2Rbinary' = [c \in Cells(mP.nR, mP.nF) |-> 0]
                 /\ counts' = [r \in 1 .. mP.nR |-> 0]
                 /\ pc' = "fanin" /\ err' = err
    /\ UNCHANGED <<mP, runVars, i, j, F2R, recVars, latVars, kcVars>>

\* line 46: inds = np.where(counts < maxFperR).  counts is nR x 1, so inds is
\* a pair of index arrays: inds[0] the rows below the cap, inds[1] one column
\* index 0 for each of them.  Rows are 0-based as in the code.
IndsRows == { r \in 0 .. (mP.nR - 1) : counts[r + 1] < maxFperR(mP) }
Inds(a) == IF a = 0 THEN IndsRows
           ELSE IF IndsRows = {} THEN {} ELSE {0}

\* lines 46-49, one pass of the inner loop for feature j.  len(inds) is 2,
\* so a is 0 or 1; counts[inds[a]] += 1 adds 1 once to each row inds[a]
\* names, and F2Rbinary[inds[a], j] = 1 sets those rows of column j.
FanInStep ==
    /\ pc = "fanin"
    /\ IF i >= mP.RperFRawNum
       THEN pc' = "F2R" /\ UNCHANGED <<F2Rbinary, counts, i, j>>
       ELSE IF j >= mP.nF
            THEN i' = i + 1 /\ j' = 0 /\ UNCHANGED <<pc, F2Rbinary, counts>>
            ELSE \E a \in {0, 1} :
                   /\ counts' = [r \in 1 .. mP.nR |->
                                   IF (r - 1) \in Inds(a) THEN counts[r] + 1
                                   ELSE counts[r]]
                   /\ F2Rbinary' = [c \in Cells(mP.nR, mP.nF) |->
                                      IF (c[1] - 1) \in Inds(a) /\ c[2] = j + 1
                                      THEN 1 ELSE F2Rbinary[c]]
                   /\ j' = j + 1
                   /\ UNCHANGED <<pc, i>>
    /\ UNCHANGED <<mP, runVars, err, F2R, recVars, latVars, kcVars>>

\* line 53 without its last factor: the noise reaches the entries the mask
\* leaves out
F2RentryUnmasked(p, b, r) == ClipMin(p.F2Rmu * RandDen * b + p.F2Rstd * r, 0)

\* lines 52-54: rand_mat, the masked weights, the clip at 0
F2Rentry(p, b, r) == ClipMin((p.F2Rmu * RandDen * b + p.F2Rstd * r) * b, 0)

MakeF2R ==
    /\ pc = "F2R"
    /\ Draw(F2R', [c \in Cells(mP.nR, mP.nF), rand_mat \in Rand |->
                      F2Rentry(mP, F2Rbinary[c], rand_mat)])
    /\ pc' = "Rspont"
    /\ UNCHANGED <<mP, runVars, err, F2Rbinary, counts, i, j, recVars, latVars, kcVars>>

\* ------------------------------------------- lines 56-64: mP.Rspont
\* a draw of np.random.gamma: a value >= 0, in units of 1/RandDen
GammaDraw == 0 .. RandDen

RspontGauss(p, r) == ClipMin(Gauss(p.spontRmu, p.spontRstd, r), 0)
RspontGamma(p, g) == p.spontRbase * RandDen + g

\* lines 57-64.  In the gamma case a = spontRmu/spontRstd and b = spontRmu/a
\* divide by zero when spontRstd or spontRmu is 0, and np.random.gamma
\* rejects a negative shape a or scale b (= spontRstd) with a ValueError.
MakeRspont ==
    /\ pc = "Rspont"
    /\ IF mP.spontRdistFlag = 1
       THEN IF mP.nG < 0
            THEN Raise("ValueError") /\ UNCHANGED Rspont
            ELSE /\ Draw(Rspont', [g \in 1 .. mP.nG, r \in Rand |->
                                      RspontGauss(mP, r)])
                 /\ pc' = "R2G" /\ err' = err
       ELSE IF mP.spontRstd = 0 \/ mP.spontRmu = 0
            THEN Raise("ZeroDivisionError") /\ UNCHANGED Rspont
            ELSE IF mP.spontRmu * mP.spontRstd < 0 \/ mP.spontRstd < 0
                    \/ mP.nG < 0
                 THEN Raise("ValueError") /\ UNCHANGED Rspont
                 ELSE /\ \E gam \in [1 .. mP.nG -> GammaDraw] :
                           Rspont' = [g \in 1 .. mP.nG |->
                                        RspontGamma(mP, gam[g])]
                      /\ pc' = "R2G" /\ err' = err
    /\ UNCHANGED <<mP, runVars, featVars, R2G, R2P, R2L, R2PIcol, latVars, kcVars>>

\* ------------------------------------- lines 66-75: R2G, R2P, R2L, R2PIcol
\* line 67: no clip follows the sum
R2Gentry(p, r) == Gauss(p.R2Gmu, p.R2Gstd, r)

MakeR2G ==
    /\ pc = "R2G"
    /\ IF mP.nG < 0
       THEN Raise("ValueError") /\ UNCHANGED R2G
       ELSE /\ Draw(R2G', [g \in 1 .. mP.nG, r \in Rand |-> R2Gentry(mP, r)])
            /\ pc' = "R2x" /\ err' = err
    /\ UNCHANGED <<mP, runVars, featVars, Rspont, R2P, R2L, R2PIcol, latVars, kcVars>>

\* ( mult + std*rand ) * R2G, in units of 1/RandDen^2
R2Xentry(mult, std, r, r2g) == Gauss(mult, std, r) * r2g

\* lines 71, 72 and 75, each with a draw of its own
MakeR2x ==
    /\ pc = "R2x"
    /\ Draw(R2P', [g \in 1 .. mP.nG, r \in Rand |->
                   R2Xentry(mP.R2Pmult, mP.R2Pstd, r, R2G[g])])
    /\ Draw(R2L', [g \in 1 .. mP.nG, r \in Rand |->
                   R2Xentry(mP.R2Lmult, mP.R2Lstd, r, R2G[g])])
    /\ Draw(R2PIcol', [g \in 1 .. mP.nG, r \in Rand |->
                   R2Xentry(mP.R2PImult, mP.R2PIstd, r, R2G[g])])
    /\ pc' = "L2G"
    /\ UNCHANGED <<mP, runVars, err, featVars, Rspont, R2G, latVars, kcVars>>

\* ------------------------------------------------- lines 78-94: mP.L2G
\* lines 81-83 without line 84: the diagonal keeps its draws
KeepDiagonal(M, n) == M

\* line 84: L2G -= np.diag(np.diag(L2G))
RemoveDiagonal(M, n) ==
    [c \in Cells(n, n) |-> IF c[1] = c[2] THEN M[c] - M[c] ELSE M[c]]

\* lines 81-84: the draw, the clip at 0, the diagonal set to 0
MakeL2G ==
    /\ pc = "L2G"
    /\ LET clipped == [c \in Cells(mP.nG, mP.nG), r \in Rand |->
                         ClipMin(Gauss(mP.L2Gmu, mP.L2Gstd, r), 0)]
       IN \E rnd \in Draws(clipped) :
             L2G' = RemoveDiagonal(Fill(clipped, rnd), mP.nG)
    /\ pc' = "sparsify"
    /\ UNCHANGED <<mP, runVars, err, featVars, recVars, numZero, numToKill,
                   L2GgabaSens, L2R, L2P, L2L, L2PI, kcVars>>

\* L2G.flatten(): row-major, as a sequence
Flatten(M, n) ==
    [k \in 1 .. (n * n) |-> M[<<((k - 1) \div n) + 1, ((k - 1) % n) + 1>>]]

\* the elements of a 2-D array read in column-major order, which is how
\* reshape(order="F") reads its argument
RavelF(M, n) ==
    [k \in 1 .. (n * n) |-> M[<<((k - 1) % n) + 1, ((k - 1) \div n) + 1>>]]

\* reshape((n, n), order="F") of a flat array: filled column by column
ReshapeF(flat, n) ==
    [c \in Cells(n, n) |-> flat[(c[1] - 1) + (c[2] - 1) * n + 1]]

Zeros(M, n) == Cardinality({c \in Cells(n, n) : M[c] = 0})

\* line 87
NumZero(M, n) == Zeros(M, n) - n

\* line 88 with L2Gfr as the fraction to remove instead of the one to keep
NumToKillOfKept(fr, n, nz) ==
    (fr * (n * n - n) - nz * ProbDen) \div ProbDen

\* line 88: floor( (1 - L2Gfr)*(nG^2 - nG) - numZero ), L2Gfr = fr/ProbDen
NumToKill(fr, n, nz) ==
    ((ProbDen - fr) * (n * n - n) - nz * ProbDen) \div ProbDen

\* line 91: rand < numToKill/(nG^2 - nG - numZero).  A zero denominator with
\* numToKill > 0 gives inf, and every draw is below it.
KillDraw(r, ntk, den) == r * den < ntk * RandDen

\* lines 87-94.  When numToKill > 0 the matrix is flattened row by row, each
\* positive entry whose own draw falls below the threshold is set to 0, and
\* the flat array is reshaped column by column; otherwise reshape reads and
\* fills the 2-D array in the same order.
Sparsify ==
    /\ pc = "sparsify"
    /\ LET n == mP.nG
           nz == NumZero(L2G, n)
           ntk == NumToKill(mP.L2Gfr, n, nz)
       IN /\ numZero' = nz
          /\ numToKill' = ntk
          /\ IF ntk > 0
             THEN LET flat == Flatten(L2G, n)
                      killed == [k \in 1 .. (n * n), randList \in Rand |->
                                   IF flat[k] > 0
                                      /\ KillDraw(randList, ntk, n * n - n - nz)
                                   THEN 0 ELSE flat[k]]
                  IN \E rnd \in Draws(killed) :
                        L2G' = ReshapeF(Fill(killed, rnd), n)
             ELSE L2G' = ReshapeF(RavelF(L2G, n), n)
    /\ pc' = "gaba"
    /\ UNCHANGED <<mP, runVars, err, featVars, recVars, L2GgabaSens, L2R, L2P, L2L,
                   L2PI, kcVars>>

\* --------------------------------- lines 99-112: GABA scaling, L2R .. L2PI
\* lines 101-105: row i of L2G times gabaSens[i] (units 1/RandDen^2), then
\* L2G itself times GsensMu
GabaScale ==
    /\ pc = "gaba"
    /\ \E gabaSens \in [1 .. mP.nG -> Rand] :
          L2GgabaSens' = [c \in Cells(mP.nG, mP.nG) |->
                            L2G[c] * Gauss(mP.GsensMu, mP.GsensStd,
                                           gabaSens[c[1]])]
    /\ L2G' = [c \in Cells(mP.nG, mP.nG) |-> L2G[c] * mP.GsensMu]
    /\ pc' = "L2x"
    /\ UNCHANGED <<mP, runVars, err, featVars, recVars, numZero, numToKill,
                   L2R, L2P, L2L, L2PI, kcVars>>

\* ( mult + std*rand ).clip(min=0) * L2GgabaSens, in units of 1/RandDen^3
L2Xentry(mult, std, r, gs) == ClipMin(Gauss(mult, std, r), 0) * gs

\* lines 108-112, each with a draw of its own; line 112 takes L2Lmult for L2PI
MakeL2x ==
    /\ pc = "L2x"
    /\ Draw(L2R', [c \in Cells(mP.nG, mP.nG), r \in Rand |->
                   L2Xentry(mP.L2Rmult, mP.L2Rstd, r, L2GgabaSens[c])])
    /\ Draw(L2P', [c \in Cells(mP.nG, mP.nG), r \in Rand |->
                   L2Xentry(mP.L2Pmult, mP.L2Pstd, r, L2GgabaSens[c])])
    /\ Draw(L2L', [c \in Cells(mP.nG, mP.nG), r \in Rand |->
                   L2Xentry(mP.L2Lmult, mP.L2Lstd, r, L2GgabaSens[c])])
    /\ Draw(L2PI', [c \in Cells(mP.nG, mP.nG), r \in Rand |->
                   L2Xentry(mP.L2Lmult, mP.L2PIstd, r, L2GgabaSens[c])])
    /\ pc' = "P2K"
    /\ UNCHANGED <<mP, runVars, err, featVars, recVars, L2G, numZero, numToKill,
                   L2GgabaSens, kcVars>>

\* ------------------------------------------------ lines 115-123: mP.P2K
\* lines 119-121 without line 123: no cap
P2KentryNoCap(p, r, conn) == ClipMin(Gauss(p.P2Kmu, p.P2Kstd, r), 0) * conn

\* lines 119-123: the clip at 0, the mask, the cap at hebMaxPK
P2Kentry(p, r, conn) ==
    ClipMax(ClipMin(Gauss(p.P2Kmu, p.P2Kstd, r), 0) * conn, p.hebMaxPK * RandDen)

\* lines 115-133.  r.rand rejects a negative dimension; np.max of line 132
\* rejects an array without elements, after P2K is attached.  The function
\* ends without a return statement: its result is what it attached to mP.
MakeP2K ==
    /\ pc = "P2K"
    /\ IF mP.nK < 0 \/ mP.nP < 0
       THEN Raise("ValueError") /\ UNCHANGED kcVars
       ELSE /\ Draw(P2KconnMatrix', [c \in Cells(mP.nK, mP.nP), r \in Rand |->
                      IF RandLess(r, mP.KperPfrMu) THEN 1 ELSE 0])
            /\ Draw(P2K', [c \in Cells(mP.nK, mP.nP), r \in Rand |->
                      P2Kentry(mP, r, P2KconnMatrix'[c])])
            /\ IF mP.nK = 0 \/ mP.nP = 0
               THEN Raise("ValueError")
               ELSE pc' = "return" /\ err' = err
    /\ UNCHANGED <<mP, runVars, featVars, recVars, latVars>>

\* ===================================================== the run loop
\* src/runMothLearnerMNIST.py, the body of the loop of line 192 from the
\* creation of the moth (line 276) to the end of sde_wrap (line 314).

\* USER ENTRIES, lines 64 and 111
use_existing_conn_matrices == FALSE
save_params_folder == "params"

\* lines 282-288: the template ModelParams is created and handed to
\* init_connection_matrix, which line 54 imports from support_functions.params;
\* its steps are the ones of initializeConnectionMatrices, the builder of
\* connect_mat.py
CreateMoth ==
    /\ step = "moth" /\ ~ use_existing_conn_matrices
    /\ pc = "idle"
    /\ pc' = "mask" /\ step' = "conn"
    /\ UNCHANGED <<mP, err, featVars, recVars, latVars, kcVars, run, queueVars, respVars,
                   paramsDir, paramsPkl, simVars>>

\* line 288: the call returns the filled ModelParams
ConnReturn ==
    /\ step = "conn" /\ pc = "return"
    /\ step' = "K2E"
    /\ UNCHANGED <<mP, pc, err, featVars, recVars, latVars, kcVars, run, queueVars, respVars,
                   paramsDir, paramsPkl, simVars>>

\* an exception of the call is swallowed and the run goes on
ConnRaiseSwallowed ==
    /\ step = "conn" /\ pc = "raised"
    /\ step' = "K2E"
    /\ UNCHANGED <<mP, pc, err, featVars, recVars, latVars, kcVars, run, queueVars, respVars,
                   paramsDir, paramsPkl, simVars>>

\* line 288: an exception of the call is caught nowhere and ends the script
ConnRaise ==
    /\ step = "conn" /\ pc = "raised"
    /\ step' = "crashed"
    /\ UNCHANGED <<mP, pc, err, featVars, recVars, latVars, kcVars, run, queueVars, respVars,
                   paramsDir, paramsPkl, simVars>>

\* K2E = min( max(0, K2Emu + K2Estd*rand) .* K2EconnMatrix, hebMaxKE )
K2Eentry(p, r, conn) ==
    ClipMax(ClipMin(Gauss(p.K2Emu, p.K2Estd, r), 0) * conn, p.hebMaxKE * RandDen)

\* The Kenyon-cell to readout weights, which the simulator reads and
\* updates.  connect_mat.py holds their construction as a comment only
\* (lines 174-181); it is modelled from the specification.
MakeK2E ==
    /\ step = "K2E"
    /\ Draw(K2EconnMatrix', [c \in Cells(mP.nE, mP.nK), r \in Rand |->
                                IF RandLess(r, mP.KperEfrMu) THEN 1 ELSE 0])
    /\ Draw(K2E', [c \in Cells(mP.nE, mP.nK), r \in Rand |->
                      K2Eentry(mP, r, K2EconnMatrix'[c])])
    /\ step' = "save"
    /\ UNCHANGED <<mP, pc, err, featVars, recVars, latVars, kcVars, run, queueVars, respVars,
                   paramsDir, paramsPkl, expP, t, lay, rate, raw, octo>>

\* lines 290-296: modelParams.pkl is dumped inside the branch that creates
\* the folder
SaveParams ==
    /\ step = "save"
    /\ IF save_params_folder # ""
       THEN IF ~ paramsDir
            THEN paramsDir' = TRUE /\ paramsPkl' = TRUE
            ELSE UNCHANGED <<paramsDir, paramsPkl>>
       ELSE UNCHANGED <<paramsDir, paramsPkl>>
    /\ step' = "expParams"
    /\ UNCHANGED <<mP, pc, err, featVars, recVars, latVars, kcVars, run, queueVars, respVars,
                   simVars>>

\* The timeline of an experiment: the pre-training steps, then the training
\* steps, then the post-training steps.
Timeline ==
    [ trainStart |-> PreSteps,
      trainEnd |-> PreSteps + TrainSteps,
      stop |-> PreSteps + TrainSteps + PostSteps ]

\* lines 298-309: ExpParams(tr_classes, class_labels, val_per_class)
BuildExpParams ==
    /\ step = "expParams"
    /\ expP' = Timeline
    /\ step' = "sde"
    /\ UNCHANGED <<mP, pc, err, featVars, recVars, latVars, kcVars, run, queueVars, respVars,
                   paramsDir, paramsPkl, K2EconnMatrix, K2E, t, lay, rate, raw,
                   octo>>

\* ---------------------------------------------- sde_wrap (line 314)
\* The layers, in the order of the feed-forward path
Layers == <<"R", "P", "L", "K", "E">>

LayerSize(p, l) ==
    CASE Layers[l] = "R" -> p.nG
      [] Layers[l] = "P" -> p.nP
      [] Layers[l] = "L" -> p.nG
      [] Layers[l] = "K" -> p.nK
      [] Layers[l] = "E" -> p.nE

LayerK == 4
LayerE == 5

\* the phase of a time step: 1 is PRE_TRAIN, 2 is TRAIN, 3 is POST_TRAIN
PhaseNum(e, tt) ==
    IF tt < e.trainStart THEN 1 ELSE IF tt < e.trainEnd THEN 2 ELSE 3

\* octopamine and plasticity at every time step
OctoAlways(e, tt) == TRUE

\* octopamine is active, and K2E plastic, in the training steps
OctoOn(e, tt) == e.trainStart <= tt /\ tt < e.trainEnd

\* rate(t) + dt*f + sqrt(dt)*noise*draw, before the clip
RawRate(r, drift, noise) == r + drift + noise

\* an update that stores the rate as it is
NoClip(v) == v

\* the per-step clip of a rate at 0
ClipRate(v) == ClipMin(v, 0)

\* the Hebbian rule: the weight plus presynaptic rate times postsynaptic
\* rate, kept within [0, hebMaxKE]
Hebbian(p, w, pre, post) ==
    ClipMax(ClipMin(w + pre * post, 0), p.hebMaxKE * RandDen)

\* sde_wrap starts: every rate is 0 at the first step of the time grid
SdeStart ==
    /\ step = "sde"
    /\ rate' = [l \in 1 .. Len(Layers) |-> [n \in 1 .. LayerSize(mP, l) |-> 0]]
    /\ raw' = [n \in {} |-> 0]
    /\ octo' = FALSE
    /\ t' = 0 /\ lay' = 1
    /\ step' = "sdeLoop"
    /\ UNCHANGED <<mP, pc, err, featVars, recVars, latVars, kcVars, run, queueVars, respVars,
                   paramsDir, paramsPkl, K2EconnMatrix, K2E, expP>>

\* One layer of one time step: every neuron of the layer gets its drift
\* (larger by the octopamine gain in a training step) and its noise, and is
\* clipped at 0.  A rate beyond the sanity bound is a SimulationError,
\* which ends the run.  After the last layer of a training step K2E is
\* updated by the Hebbian rule.
SdeLayer ==
    /\ step = "sdeLoop" /\ t < expP.stop
    /\ \E drift \in [1 .. LayerSize(mP, lay) -> (- DriftMax) .. DriftMax],
          noise \in [1 .. LayerSize(mP, lay) -> {-1, 0, 1}] :
          LET gain == IF OctoOn(expP, t) THEN 1 ELSE 0
              rw == [n \in 1 .. LayerSize(mP, lay) |->
                       RawRate(rate[lay][n], drift[n] + gain, noise[n])]
              new == [n \in 1 .. LayerSize(mP, lay) |-> ClipRate(rw[n])]
          IN /\ raw' = rw
             /\ octo' = OctoOn(expP, t)
             /\ rate' = [rate EXCEPT ![lay] = new]
             /\ IF \E n \in 1 .. LayerSize(mP, lay) : new[n] > RateMax
                THEN /\ step' = "crashed" /\ err' = "SimulationError"
                     /\ UNCHANGED <<t, lay, K2E>>
                ELSE /\ UNCHANGED <<step, err>>
                     /\ IF lay < Len(Layers)
                        THEN lay' = lay + 1 /\ UNCHANGED <<t, K2E>>
                        ELSE /\ lay' = 1 /\ t' = t + 1
                             /\ IF OctoOn(expP, t)
                                THEN K2E' = [c \in Cells(mP.nE, mP.nK) |->
                                               Hebbian(mP, K2E[c],
                                                       rate[LayerK][c[2]],
                                                       new[c[1]])]
                                ELSE UNCHANGED K2E
    /\ UNCHANGED <<mP, pc, featVars, recVars, latVars, kcVars, run, queueVars, respVars,
                   paramsDir, paramsPkl, K2EconnMatrix, expP>>

\* the time grid is exhausted: sde_wrap returns simResults
SdeEnd ==
    /\ step = "sdeLoop" /\ t >= expP.stop
    /\ step' = "results"
    /\ UNCHANGED <<mP, pc, err, featVars, recVars, latVars, kcVars, run, queueVars, respVars,
                   paramsDir, paramsPkl, simVars>>

\* ------------------------------------------------- specifications
\* initializeConnectionMatrices alone
Build ==
    \/ MaskBernoulli
    \/ OrthoRow
    \/ MaskFixedInit
    \/ FanInStep
    \/ MakeF2R
    \/ MakeRspont
    \/ MakeR2G
    \/ MakeR2x
    \/ MakeL2G
    \/ Sparsify
    \/ GabaScale
    \/ MakeL2x
    \/ MakeP2K

Next == Build

Spec == Init /\ [][Next]_vars

\* the ModelParams of the runs: the valid template with and without
\* orthogonal features, malformed ones (a layer size of 0, a probability
\* above 1, a negative std), the Kenyon-cell weights against their ceilings
RunMalformed ==
    { [Base EXCEPT !.RperFFrMu = 0, !.nR = 0],
      [Base EXCEPT !.nK = 0],
      [Base EXCEPT !.KperPfrMu = ProbDen + 1],
      [Base EXCEPT !.F2Rstd = -1] }

RunParams ==
    { Base, [Base EXCEPT !.makeFeaturesOrthogonalFlag = TRUE],
      [Base EXCEPT !.RperFFrMu = 0] }
    \cup RunMalformed
    \cup { [Base EXCEPT !.KperPfrMu = 1, !.P2Kmu = 2, !.P2Kstd = 1,
                        !.hebMaxPK = h] : h \in {0, 1} }
    \cup { [Base EXCEPT !.K2Emu = ms[1], !.K2Estd = ms[2], !.hebMaxKE = h] :
             ms \in {<<-1, 3>>, <<2, 1>>}, h \in {0, 1, 2} }

\* a run, from the creation of the moth; the folder of save_params_folder may
\* exist already (enumerated for the runs of the template moth)
RunInit ==
    /\ mP \in RunParams
    /\ pc = "idle"
    /\ step = "moth" /\ run = 0 /\ paramsPkl = FALSE
    /\ paramsDir \in (IF mP = Base THEN BOOLEAN ELSE {FALSE})
    /\ NoMatrices
    /\ NoSim
    /\ qP = NoMat /\ NoQueue
    /\ enResp = NoMat /\ NoResp

RunNext ==
    \/ CreateMoth
    \/ Build
    \/ ConnReturn
    \/ ConnRaise
    \/ MakeK2E
    \/ SaveParams
    \/ BuildExpParams
    \/ SdeStart
    \/ SdeLayer
    \/ SdeEnd

RunSpec == RunInit /\ [][RunNext]_vars


\* ------------------------------------------- the digit queues of a run
\* (runMothLearnerMNIST.py, lines 192-252).  A column of a queue is the
\* feature vector fA[:, ind, i] of one sample of class i; the model keeps
\* the index ind in its place, and -1 for a column of zeros.
PoolLen == 1      \* indices in the baseline pool (100 in the script)
MaxVal == 2       \* val_per_class
MaxTr == 2        \* tr_per_class
MaxSniffs == 2    \* num_sniffs
MaxClasses == 2   \* classes in class_labels
MaxDraws == 8     \* random draws of one subsampling

\* the pools of indices, in the proportions 1 : 2 : 1 of the script
indPoolForBaseline == 0 .. (PoolLen - 1)
indPoolForTrain == PoolLen .. (3 * PoolLen - 1)
indPoolForPostTrain == (3 * PoolLen) .. (4 * PoolLen - 1)

SetMax(S) == CHOOSE x \in S : \A y \in S : y <= x
SetMin(S) == CHOOSE x \in S : \A y \in S : x <= y

\* the columns the three segments of a queue take
QueueLen(q) == 2 * q.val_per_class + q.tr_per_class * q.num_sniffs

\* the settings of a subsampling
QueueParams ==
    { q \in [val_per_class : 1 .. MaxVal, tr_per_class : 1 .. MaxTr,
             num_sniffs : 1 .. MaxSniffs, classNum : 1 .. MaxClasses] :
        q.classNum * (2 * q.val_per_class + q.tr_per_class) <= MaxDraws }

\* fA holds more samples of a class than a queue takes
numPerClass(q) == QueueLen(q) + 1

class_labels(q) == 0 .. (q.classNum - 1)

QueueCells(q) == (0 .. (numPerClass(q) - 1)) \X class_labels(q)

\* np.random.choice(n, k): k draws from 0 .. n-1, with replacement
Choice(n, k) == [0 .. (k - 1) -> 0 .. (n - 1)]

\* the draw is taken as the index itself
PoolSampleNoOffset(pool, r_sample) == r_sample

\* theseInds = min(pool) + r_sample
PoolSample(pool, r_sample) ==
    [k \in DOMAIN r_sample |-> SetMin(pool) + r_sample[k]]

\* rangeTopEnd = max(pool) - min(pool) + 1
RangeTopEnd(pool) == SetMax(pool) - SetMin(pool) + 1

\* np.tile(theseInds, n) of k indices
Tile(theseInds, k, n) == [c \in 0 .. (k * n - 1) |-> theseInds[c % k]]

\* digitQueues[:, lo:hi, i] = fA[:, theseInds, i]
Assign(Q, lo, hi, cl, theseInds) ==
    [c \in DOMAIN Q |->
        IF c[2] = cl /\ lo <= c[1] /\ c[1] < hi THEN theseInds[c[1] - lo]
        ELSE Q[c]]

\* temp = digitQueues[:, lo:hi, i], as the rows of temp.T
Slice(Q, lo, hi, cl) == [k \in 0 .. (hi - lo - 1) |-> Q[<<lo + k, cl>>]]

\* X[i*n:(i+1)*n, :] = temp.T
AssignRows(X, cl, n, temp) ==
    [r \in DOMAIN X |->
        IF cl * n <= r /\ r < (cl + 1) * n THEN temp[r - cl * n] ELSE X[r]]

queueFrame == <<mP, pc, err, featVars, recVars, latVars, kcVars, run,
                paramsDir, paramsPkl, simVars, qP, respVars>>

\* digitQueues = np.zeros(fA.shape)
QueueZeros ==
    /\ step = "queue"
    /\ digitQueues' = [c \in QueueCells(qP) |-> -1]
    /\ cls' = 0
    /\ step' = "baseline"
    /\ UNCHANGED <<queueFrame, trainX, valX>>

\* 1. baseline images of class cls
QueueBaseline ==
    /\ step = "baseline"
    /\ \E r_sample \in Choice(RangeTopEnd(indPoolForBaseline),
                              qP.val_per_class) :
          digitQueues' = Assign(digitQueues, 0, qP.val_per_class, cls,
                                PoolSample(indPoolForBaseline, r_sample))
    /\ step' = "training"
    /\ UNCHANGED <<queueFrame, trainX, valX, cls>>

\* 2. training images of class cls, repeated for every sniff
QueueTraining ==
    /\ step = "training"
    /\ \E r_sample \in Choice(RangeTopEnd(indPoolForTrain),
                              qP.tr_per_class) :
          digitQueues' =
              Assign(digitQueues, qP.val_per_class,
                     qP.val_per_class + qP.tr_per_class * qP.num_sniffs, cls,
                     Tile(PoolSample(indPoolForTrain, r_sample),
                          qP.tr_per_class, qP.num_sniffs))
    /\ step' = "postTrain"
    /\ UNCHANGED <<queueFrame, trainX, valX, cls>>

\* 3. post-training images of class cls; then the next class, or the
\* matrices of the comparison classifiers, filled with zeros
QueuePostTrain ==
    /\ step = "postTrain"
    /\ \E r_sample \in Choice(RangeTopEnd(indPoolForPostTrain),
                              qP.val_per_class) :
          digitQueues' =
              Assign(digitQueues,
                     qP.val_per_class + qP.tr_per_class * qP.num_sniffs,
                     qP.val_per_class + qP.tr_per_class * qP.num_sniffs
                        + qP.val_per_class, cls,
                     PoolSample(indPoolForPostTrain, r_sample))
    /\ IF cls + 1 < qP.classNum
       THEN /\ cls' = cls + 1
            /\ step' = "baseline"
            /\ UNCHANGED <<trainX, valX>>
       ELSE /\ cls' = 0
            /\ step' = "trainX"
            /\ trainX' = [r \in 0 .. (qP.classNum * qP.tr_per_class - 1)
                            |-> -1]
            /\ valX' = [r \in 0 .. (qP.classNum * qP.val_per_class - 1)
                            |-> -1]
    /\ UNCHANGED queueFrame

\* the rows of class cls in trainX and valX
TrainValRows ==
    /\ step = "trainX"
    /\ trainX' = AssignRows(trainX, cls, qP.tr_per_class,
                    Slice(digitQueues, qP.val_per_class,
                          qP.val_per_class + qP.tr_per_class, cls))
    /\ valX' = AssignRows(valX, cls, qP.val_per_class,
                    Slice(digitQueues, qP.val_per_class + qP.tr_per_class,
                          2 * qP.val_per_class + qP.tr_per_class, cls))
    /\ IF cls + 1 < qP.classNum
       THEN cls' = cls + 1 /\ step' = "trainX"
       ELSE cls' = 0 /\ step' = "moth"
    /\ UNCHANGED <<queueFrame, digitQueues>>

Subsample ==
    \/ QueueZeros
    \/ QueueBaseline
    \/ QueueTraining
    \/ QueuePostTrain
    \/ TrainValRows

\* the subsampling of a run, for every setting of the queue
QueueInit ==
    /\ mP = Base
    /\ pc = "idle"
    /\ step = "queue" /\ run = 0 /\ paramsPkl = FALSE /\ paramsDir = FALSE
    /\ NoMatrices
    /\ NoSim
    /\ qP \in QueueParams /\ NoQueue
    /\ enResp = NoMat /\ NoResp

QueueNext == Subsample

QueueSpec == QueueInit /\ [][QueueNext]_vars


\* --------------------------- EN responses and classifiers of a run
\* (runMothLearnerMNIST.py, lines 324-349).  view_EN_resp and the module
\* classify are not among the sources; the records and the two classifiers
\* follow sections 4.3 and 4.4 of the specification.  A record is the
\* summary of one readout neuron: per class the mean and the std of its
\* responses, per stimulus the class and the response, before and after
\* training.  Class c is at index c + 1 of a tuple.
MaxResp == 3      \* responses and means are 0 .. MaxResp
MaxStdExp == 1    \* a positive std is a power of 2 up to 2^MaxStdExp
Ln2Num == 6931    \* ln 2, to four decimals, is Ln2Num / Ln2Den
Ln2Den == 10000
StdFloor == 1     \* the floor of a degenerate std, in the unit of the stds

RECURSIVE Pow2(_)
Pow2(k) == IF k <= 0 THEN 1 ELSE 2 * Pow2(k - 1)

RECURSIVE Log2(_)
Log2(v) == IF v <= 1 THEN 0 ELSE 1 + Log2(v \div 2)

Resps == 0 .. MaxResp
Stds == {0} \cup { Pow2(k) : k \in 0 .. MaxStdExp }

\* one stimulus of class 0 and one of class 1 in each polling window
odorClasses == <<0, 1>>

\* the summary of a neuron that answers class 0 with 0 and class 1 with
\* MaxResp after training, and every class alike before
TemplateResp ==
    [odorClass |-> odorClasses,
     preMeanResp |-> <<1, 1>>, preStdResp |-> <<1, 1>>,
     preTrainOdorResp |-> <<1, 1>>,
     postMeanResp |-> <<0, MaxResp>>, postStdResp |-> <<1, 1>>,
     postTrainOdorResp |-> <<0, MaxResp>>]

\* the summaries of a run: the post-training fields of the first neuron
\* take every value; its pre-training responses, and a second neuron, vary
EnRespSpace ==
    { IF two THEN <<first, TemplateResp>> ELSE <<first>> :
        two \in BOOLEAN,
        first \in
          { [TemplateResp EXCEPT !.postMeanResp = m, !.postStdResp = sd,
                                 !.postTrainOdorResp = x,
                                 !.preTrainOdorResp = px] :
              m \in Resps \X Resps, sd \in Stds \X Stds,
              x \in Resps \X Resps, px \in {<<1, 1>>, <<0, MaxResp>>} } }

\* the records a list of references stands for
Records(h, lst) == [k \in DOMAIN lst |-> h[lst[k]]]

\* a degenerate std counts as the floor
Floored(sd) == IF sd < StdFloor THEN StdFloor ELSE sd

\* the list and its records are shared with the original
AliasList(lst, base) == lst

\* copy.deepcopy of a list of records: fresh records at fresh references
DeepCopyList(lst, base) == [k \in DOMAIN lst |-> base + k]

\* a later score replaces the best one on a tie, too
BetterOrEqual(a, b) == a >= b

\* a later class replaces the best one if its score is higher
Better(a, b) == a > b

\* the Gaussian log-likelihood of response x under (mean, std) of class c
\* of one record, -ln(std) - (x - mean)^2 / (2 std^2), in units of
\* 1 / (2 * Ln2Den * 4^MaxStdExp)
LogLikOne(rec, x, c) ==
    LET sd == Floored(rec.postStdResp[c + 1])
        W == Pow2(MaxStdExp) * Pow2(MaxStdExp)
        d == x - rec.postMeanResp[c + 1]
    IN  - (2 * W * Log2(sd) * Ln2Num) - Ln2Den * d * d * (W \div (sd * sd))

\* summed over the neurons, for stimulus s
LogLik(recs, s, c) ==
    SumOver([e \in DOMAIN recs |->
                LogLikOne(recs[e], recs[e].postTrainOdorResp[s], c)],
            DOMAIN recs)

\* the arg-max over the classes 0 .. c, taken class by class
RECURSIVE ArgMaxLogLik(_, _, _)
ArgMaxLogLik(recs, s, c) ==
    IF c = 0 THEN 0
    ELSE LET b == ArgMaxLogLik(recs, s, c - 1)
         IN  IF Better(LogLik(recs, s, c), LogLik(recs, s, b)) THEN c ELSE b

ClassesOf(recs) == { recs[1].odorClass[s] : s \in DOMAIN recs[1].odorClass }

\* total_acc and acc_perc of a prediction per stimulus, in percent
Accuracy(recs, pred) ==
    LET cl == recs[1].odorClass
        hit(S) == Cardinality({ s \in S : pred[s] = cl[s] })
        of(c) == { s \in DOMAIN cl : cl[s] = c }
    IN  [total_acc |-> (100 * hit(DOMAIN cl)) \div Len(cl),
         acc_perc |-> [c \in ClassesOf(recs) |->
                          (100 * hit(of(c))) \div Cardinality(of(c))]]

classify_digits_log_likelihood(recs) ==
    Accuracy(recs,
             [s \in DOMAIN recs[1].odorClass |->
                 ArgMaxLogLik(recs, s, SetMax(ClassesOf(recs)))])

\* the neuron of class c votes for it if the scaled response exceeds
\* mean - multiplier * std
Votes(recs, s, c, gain, offset, multiplier) ==
    /\ c + 1 \in DOMAIN recs
    /\ gain * recs[c + 1].postTrainOdorResp[s] + offset >
          recs[c + 1].postMeanResp[c + 1]
             - multiplier * Floored(recs[c + 1].postStdResp[c + 1])

\* the lowest class whose neuron votes; -1, which is no class, if none does
classify_digits_thresholding(recs, gain, offset, multiplier) ==
    Accuracy(recs,
             [s \in DOMAIN recs[1].odorClass |->
                 LET v == { c \in ClassesOf(recs) :
                              Votes(recs, s, c, gain, offset, multiplier) }
                 IN  IF v = {} THEN -1 ELSE SetMin(v)])

\* the floor of a degenerate std is written into the records
FloorsInPlace(h) ==
    [a \in DOMAIN h |->
        [h[a] EXCEPT !.postStdResp =
            [c \in DOMAIN h[a].postStdResp |-> Floored(h[a].postStdResp[c])]]]

\* the records after a classifier has read them: the same
ReadOnly(h) == h

\* the gain 1e9 of the two calls of the run, as an integer that the product
\* with a response keeps within 32 bits
homeGain == 1000000

respFrame == <<mP, pc, err, featVars, recVars, latVars, kcVars, run,
               paramsDir, paramsPkl, simVars, queueVars, enResp>>

\* respOrig = view_EN_resp(...): one record per readout neuron
Aggregate ==
    /\ step = "results"
    /\ respOrig' = [k \in DOMAIN enResp |-> k]
    /\ heap' = enResp
    /\ step' = "deepcopy"
    /\ UNCHANGED <<respFrame, respNaive, ri, outputs>>

\* respNaive = copy.deepcopy(respOrig)
DeepCopy ==
    /\ step = "deepcopy"
    /\ respNaive' = DeepCopyList(respOrig, Len(heap))
    /\ heap' = heap \o Records(heap, respOrig)
    /\ ri' = 1
    /\ step' = "substitute"
    /\ UNCHANGED <<respFrame, respOrig, outputs>>

\* one turn of the loop: the post-training fields of respNaive[i] are set
\* to copies of the pre-training fields of respOrig[i]
Substitute ==
    /\ step = "substitute"
    /\ IF ri <= Len(respOrig)
       THEN /\ heap' = [heap EXCEPT ![respNaive[ri]] =
                  [heap[respNaive[ri]] EXCEPT
                     !.postMeanResp = heap[respOrig[ri]].preMeanResp,
                     !.postStdResp = heap[respOrig[ri]].preStdResp,
                     !.postTrainOdorResp =
                         heap[respOrig[ri]].preTrainOdorResp]]
            /\ ri' = ri + 1
            /\ step' = step
       ELSE /\ step' = "naiveLogL"
            /\ UNCHANGED <<heap, ri>>
    /\ UNCHANGED <<respFrame, respOrig, respNaive, outputs>>

\* outputNaiveLogL = classify_digits_log_likelihood(respNaive)
NaiveLogL ==
    /\ step = "naiveLogL"
    /\ outputs' = outputs @@ ("outputNaiveLogL" :>
          classify_digits_log_likelihood(Records(heap, respNaive)))
    /\ heap' = ReadOnly(heap)
    /\ step' = "trainedLogL"
    /\ UNCHANGED <<respFrame, respOrig, respNaive, ri>>

\* outputTrainedLogL = classify_digits_log_likelihood(respOrig)
TrainedLogL ==
    /\ step = "trainedLogL"
    /\ outputs' = outputs @@ ("outputTrainedLogL" :>
          classify_digits_log_likelihood(Records(heap, respOrig)))
    /\ heap' = ReadOnly(heap)
    /\ step' = "naiveThresholding"
    /\ UNCHANGED <<respFrame, respOrig, respNaive, ri>>

\* outputNaiveThresholding = classify_digits_thresholding(respNaive, 1e9, -1, 10)
NaiveThresholding ==
    /\ step = "naiveThresholding"
    /\ outputs' = outputs @@ ("outputNaiveThresholding" :>
          classify_digits_thresholding(Records(heap, respNaive),
                                       homeGain, -1, 10))
    /\ heap' = ReadOnly(heap)
    /\ step' = "trainedThresholding"
    /\ UNCHANGED <<respFrame, respOrig, respNaive, ri>>

\* outputTrainedThresholding = classify_digits_thresholding(respOrig, 1e9, -1, 10)
TrainedThresholding ==
    /\ step = "trainedThresholding"
    /\ outputs' = outputs @@ ("outputTrainedThresholding" :>
          classify_digits_thresholding(Records(heap, respOrig),
                                       homeGain, -1, 10))
    /\ heap' = ReadOnly(heap)
    /\ step' = "classified"
    /\ UNCHANGED <<respFrame, respOrig, respNaive, ri>>

Classify ==
    \/ Aggregate
    \/ DeepCopy
    \/ Substitute
    \/ NaiveLogL
    \/ TrainedLogL
    \/ NaiveThresholding
    \/ TrainedThresholding

\* a run at the return of sde_wrap, for every summary of its responses;
\* the matrices and the time series the summary is taken from are left out
ClassInit ==
    /\ mP = Base
    /\ pc = "idle"
    /\ step = "results" /\ run = 0 /\ paramsPkl = FALSE /\ paramsDir = FALSE
    /\ NoMatrices
    /\ NoSim
    /\ qP = NoMat /\ NoQueue
    /\ enResp \in EnRespSpace /\ NoResp

ClassNext == Classify

ClassSpec == ClassInit /\ [][ClassNext]_vars


\* ----------------------------------------------- a whole run of the driver
\* (runMothLearnerMNIST.py, lines 192-349): the subsampling, the moth, the
\* experiment parameters, the simulation, the responses, the classifiers
\* the template moth, whose run goes to the classifiers, and moths of the
\* other modes of the feature mask, whose build raises
DriverParams ==
    { Base, [Base EXCEPT !.makeFeaturesOrthogonalFlag = TRUE],
      [Base EXCEPT !.RperFFrMu = 0, !.nK = 0] }

DriverInit ==
    /\ mP \in DriverParams
    /\ pc = "idle"
    /\ step = "queue" /\ run = 0 /\ paramsPkl = FALSE /\ paramsDir = FALSE
    /\ NoMatrices
    /\ NoSim
    /\ qP = [val_per_class |-> 1, tr_per_class |-> 1, num_sniffs |-> 2,
             classNum |-> 1]
    /\ NoQueue
    /\ enResp = <<TemplateResp>> /\ NoResp

DriverNext ==
    \/ Subsample
    \/ RunNext
    \/ Classify

DriverSpec == DriverInit /\ [][DriverNext]_vars


\* ============================================================ properties
NonNeg(M) == \A c \in DOMAIN M : M[c] >= 0

\* M is 0 wherever the mask is 0
ZeroWhere(M, mask) == \A c \in DOMAIN M : mask[c] = 0 => M[c] = 0

OffDiagonal(n) == { c \in Cells(n, n) : c[1] # c[2] }

NonZeroOff(M, n) == Cardinality({ c \in OffDiagonal(n) : M[c] # 0 })

\* initializeConnectionMatrices has run past line 84
AfterDiagonal == pc \in {"sparsify", "gaba", "L2x", "P2K", "return"}

\* C1: for a ModelParams with positive layer sizes, probabilities in [0,1]
\* and no negative std, every entry of F2R, Rspont, R2P, R2L, R2PIcol, L2G,
\* L2R, L2P, L2L, L2PI and P2K is >= 0 when the function returns.
C1_NonNegativeAtReturn ==
    (pc = "return" /\ Valid(mP)) =>
        /\ NonNeg(F2R) /\ NonNeg(Rspont)
        /\ NonNeg(R2P) /\ NonNeg(R2L) /\ NonNeg(R2PIcol)
        /\ NonNeg(L2G)
        /\ NonNeg(L2R) /\ NonNeg(L2P) /\ NonNeg(L2L) /\ NonNeg(L2PI)
        /\ NonNeg(P2K)

\* C2, as stated: at the return F2R is 0 wherever F2Rbinary is 0, P2K is 0
\* wherever P2KconnMatrix is 0, and L2R, L2P, L2L and L2PI are 0 wherever
\* the returned L2G is 0.
C2_MaskedZeroOfReturnedL2G ==
    pc = "return" =>
        /\ ZeroWhere(F2R, F2Rbinary)
        /\ ZeroWhere(P2K, P2KconnMatrix)
        /\ ZeroWhere(L2R, L2G) /\ ZeroWhere(L2P, L2G)
        /\ ZeroWhere(L2L, L2G) /\ ZeroWhere(L2PI, L2G)

\* C2, amended: at the return F2R is 0 wherever F2Rbinary is 0; P2K is 0
\* wherever P2KconnMatrix is 0 when the ceiling hebMaxPK is >= 0; L2R, L2P,
\* L2L and L2PI are 0 wherever L2GgabaSens, the L2G of before its final
\* scaling times the GABA sensitivity of the row, is 0; and when GsensMu is
\* not 0 that is so wherever the returned L2G is 0.
C2_MaskedZero ==
    pc = "return" =>
        /\ ZeroWhere(F2R, F2Rbinary)
        /\ mP.hebMaxPK >= 0 => ZeroWhere(P2K, P2KconnMatrix)
        /\ ZeroWhere(L2R, L2GgabaSens) /\ ZeroWhere(L2P, L2GgabaSens)
        /\ ZeroWhere(L2L, L2GgabaSens) /\ ZeroWhere(L2PI, L2GgabaSens)
        /\ mP.GsensMu # 0 =>
              /\ ZeroWhere(L2GgabaSens, L2G)
              /\ ZeroWhere(L2R, L2G) /\ ZeroWhere(L2P, L2G)
              /\ ZeroWhere(L2L, L2G) /\ ZeroWhere(L2PI, L2G)

\* a noisy F2R was returned with an entry the mask leaves out next to one
\* it lets through
C2_Witness ==
    /\ pc = "return" /\ mP.F2Rstd > 0
    /\ \E c, d \in DOMAIN F2R :
          F2Rbinary[c] = 0 /\ F2R[c] = 0 /\ F2Rbinary[d] = 1 /\ F2R[d] > 0

\* C4: the diagonal of L2G is 0 from its removal on: after the
\* sparsification, whether or not its branch runs, and after the final
\* scaling by GsensMu.
C4_ZeroDiagonal ==
    AfterDiagonal => \A g \in 1 .. mP.nG : L2G[<<g, g>>] = 0

\* an L2G of two glomeruli or more went through the sparsification branch
\* and was returned with an off-diagonal weight left
C4_Witness ==
    /\ pc = "return" /\ mP.nG >= 2 /\ numToKill > 0
    /\ NonZeroOff(L2G, mP.nG) > 0
    /\ \A g \in 1 .. mP.nG : L2G[<<g, g>>] = 0

\* C5: when numToKill > 0 the sparsification sets exactly numToKill of the
\* non-zero off-diagonal entries to 0, and the number of non-zero
\* off-diagonal entries then differs from L2Gfr*(nG^2 - nG) by at most 1.
C5_KillsExactly ==
    (pc = "gaba" /\ Valid(mP) /\ numToKill > 0) =>
        LET n == mP.nG
            left == NonZeroOff(L2G, n)
        IN /\ left = (n * n - n - numZero) - numToKill
           /\ left * ProbDen - mP.L2Gfr * (n * n - n) <= ProbDen
           /\ mP.L2Gfr * (n * n - n) - left * ProbDen <= ProbDen

\* C6, as stated: with L2Gfr = 1 nothing is sparsified and the returned L2G
\* has exactly nG zeros.
C6_ExactlyDiagonalZeros ==
    (pc = "return" /\ Valid(mP) /\ mP.L2Gfr = ProbDen) =>
        numToKill <= 0 /\ Zeros(L2G, mP.nG) = mP.nG

\* C6, amended: with L2Gfr = 1 nothing is sparsified (numToKill <= 0 and
\* the zero count of L2G is the one of before); the returned L2G has at
\* least nG zeros, and exactly nG when L2Gmu > 0 and GsensMu is not 0.
C6_FullFraction ==
    (Valid(mP) /\ mP.L2Gfr = ProbDen) =>
        /\ pc = "gaba" =>
              numToKill <= 0 /\ Zeros(L2G, mP.nG) = numZero + mP.nG
        /\ pc = "return" =>
              /\ numToKill <= 0
              /\ Zeros(L2G, mP.nG) >= mP.nG
              /\ (mP.L2Gmu > 0 /\ mP.GsensMu # 0) =>
                    Zeros(L2G, mP.nG) = mP.nG

\* a noisy L2G of two glomeruli or more was built with L2Gfr = 1 and
\* returned with the diagonal as its only zeros
C6_Witness ==
    /\ pc = "return" /\ Valid(mP) /\ mP.L2Gfr = ProbDen
    /\ mP.nG >= 2 /\ mP.L2Gmu > 0 /\ mP.L2Gstd > 0
    /\ numToKill <= 0 /\ Zeros(L2G, mP.nG) = mP.nG

\* C7: in fixed fan-in mode no receptor row has more than
\* ceil(nF*RperFRawNum/nR) entries equal to 1, and no count exceeds that
\* cap, at any point of the assignment loops and after them.
C7_FanInCap ==
    (Valid(mP) /\ mP.RperFFrMu <= 0 /\ pc \notin {"mask", "raised"}) =>
        \A r \in 1 .. mP.nR :
            /\ counts[r] <= maxFperR(mP)
            /\ RowSum(F2Rbinary, r, mP.nF) <= maxFperR(mP)

\* C8: with makeFeaturesOrthogonalFlag set in Bernoulli mode, the
\* orthogonalisation ends, and every row of F2Rbinary has at most one
\* non-zero entry from then on.
C8_OrthogonalRows ==
    (Valid(mP) /\ mP.RperFFrMu > 0 /\ mP.makeFeaturesOrthogonalFlag
       /\ pc \notin {"mask", "ortho"}) =>
        /\ pc # "raised"
        /\ \A r \in 1 .. mP.nR : RowSum(F2Rbinary, r, mP.nF) <= 1


\* sde_wrap has been entered
Simulating == step \in {"sdeLoop", "results"} \/ (step = "crashed" /\ rate # NoMat)

\* C3: every entry of the P2K that initializeConnectionMatrices returns is
\* <= hebMaxPK, every entry of the initial K2E is <= hebMaxKE, and through
\* the Hebbian updates of the simulation every entry of K2E stays within
\* [0, hebMaxKE].
C3_HebbianCeilings ==
    /\ pc = "return" => \A c \in DOMAIN P2K : P2K[c] <= mP.hebMaxPK * RandDen
    /\ \A c \in DOMAIN K2E : K2E[c] <= mP.hebMaxKE * RandDen
    /\ Simulating => \A c \in DOMAIN K2E : K2E[c] >= 0

\* a run ended whose P2K is at its ceiling and whose K2E, drawn below its
\* ceiling, was taken to it by the Hebbian updates
C3_Witness ==
    /\ step = "results"
    /\ \E c \in DOMAIN P2K : P2K[c] = mP.hebMaxPK * RandDen
    /\ mP.K2Emu < 0 /\ mP.hebMaxKE > 0
    /\ \E c \in DOMAIN K2E : K2E[c] = mP.hebMaxKE * RandDen

\* C9: with a malformed ModelParams (a layer size <= 0, a probability
\* outside [0,1], a std < 0) no matrix is generated or attached and no
\* simulation work begins: the run ends in the error before that.
C9_FailsFast ==
    ~ Valid(mP) =>
        /\ F2Rbinary = NoMat /\ F2R = NoMat /\ Rspont = NoMat
        /\ R2G = NoMat /\ R2P = NoMat /\ R2L = NoMat /\ R2PIcol = NoMat
        /\ L2G = NoMat /\ L2GgabaSens = NoMat
        /\ L2R = NoMat /\ L2P = NoMat /\ L2L = NoMat /\ L2PI = NoMat
        /\ P2KconnMatrix = NoMat /\ P2K = NoMat
        /\ pc \in {"idle", "mask", "raised"}
        /\ step \in {"moth", "conn", "crashed"}
        /\ NoSim

\* C10: every stored firing rate, of every layer and neuron at every time
\* step, is >= 0.
C10_RatesNonNegative ==
    \A l \in DOMAIN rate : \A n \in DOMAIN rate[l] : rate[l][n] >= 0

\* the layer last updated, in a run that goes on
LastLayer == IF lay = 1 THEN Len(Layers) ELSE lay - 1

\* the update of a layer took a rate below 0 and the clip stored 0
C10_Witness ==
    /\ step = "sdeLoop" /\ Valid(mP)
    /\ \E n \in DOMAIN raw : raw[n] < 0 /\ rate[LastLayer][n] = 0


\* the number of receptors feature column f of F2Rbinary is connected to
ColSum(M, f, n) == SumOver([r \in 1 .. n |-> M[<<r, f>>]], 1 .. n)

\* C19: in fixed fan-in mode some receptor is below the cap at each of the
\* nF*RperFRawNum assignment steps, and when the loops have ended every
\* feature column of F2Rbinary is connected to at least one and at most
\* RperFRawNum receptors.
C19_FanInCompletes ==
    (Valid(mP) /\ mP.RperFFrMu <= 0) =>
        /\ (pc = "fanin" /\ i < mP.RperFRawNum /\ j < mP.nF) => IndsRows # {}
        /\ pc \in {"F2R", "Rspont", "R2G", "R2x", "L2G", "sparsify", "gaba",
                   "L2x", "P2K", "return"} =>
              \A f \in 1 .. mP.nF :
                  /\ ColSum(F2Rbinary, f, mP.nR) >= 1
                  /\ ColSum(F2Rbinary, f, mP.nR) <= mP.RperFRawNum

\* C18: when a new moth is generated and save_params_folder is not empty,
\* modelParams.pkl has been written once the run is past the saving of the
\* params, whether or not the folder existed before.
C18_ParamsSaved ==
    (~ use_existing_conn_matrices /\ save_params_folder # ""
       /\ step \in {"expParams", "sde", "sdeLoop", "results"}) => paramsPkl


\* C11: the time steps of a simulation go through PRE_TRAIN, TRAIN and
\* POST_TRAIN in this order, one phase to the next and never back; the
\* update of a time step has octopamine active exactly when the step is in
\* TRAIN, and K2E changes only in a step of TRAIN.
C11_PhaseOrder ==
    [][ (step = "sdeLoop" /\ t < expP.stop) =>
          /\ expP' = expP
          /\ PhaseNum(expP, t') >= PhaseNum(expP, t)
          /\ PhaseNum(expP, t') <= PhaseNum(expP, t) + 1
          /\ octo' <=> (PhaseNum(expP, t) = 2)
          /\ (K2E' # K2E) => (PhaseNum(expP, t) = 2) ]_vars

\* a simulation went through the three phases to its end, its last update
\* without octopamine, and left a weight of K2E above every value the
\* weight can be drawn at
C11_Witness ==
    /\ step = "results" /\ t = expP.stop /\ PhaseNum(expP, t) = 3 /\ ~ octo
    /\ mP.K2Estd > 0
    /\ \E c \in DOMAIN K2E : K2E[c] > Gauss(mP.K2Emu, mP.K2Estd, RandDen - 1)


\* the subsampling of the queues is over
Subsampled == step \notin {"queue", "baseline", "training", "postTrain"}

TrainLo(q) == q.val_per_class
PostLo(q) == q.val_per_class + q.tr_per_class * q.num_sniffs

\* C14: in every class the queue is laid out as baseline [0, val_per_class),
\* training [val_per_class, val_per_class + tr_per_class*num_sniffs) and
\* post-training up to 2*val_per_class + tr_per_class*num_sniffs; each
\* segment holds only samples of its own pool, the pools are disjoint, and
\* no post-training sample is a training or a baseline sample.
C14_QueueLayout ==
    (Subsampled /\ digitQueues # NoMat) =>
        /\ indPoolForBaseline \cap indPoolForTrain = {}
        /\ indPoolForBaseline \cap indPoolForPostTrain = {}
        /\ indPoolForTrain \cap indPoolForPostTrain = {}
        /\ 0 < TrainLo(qP) /\ TrainLo(qP) < PostLo(qP)
        /\ PostLo(qP) < QueueLen(qP)
        /\ \A c \in DOMAIN digitQueues :
              /\ c[1] < TrainLo(qP) => digitQueues[c] \in indPoolForBaseline
              /\ (TrainLo(qP) <= c[1] /\ c[1] < PostLo(qP)) =>
                     digitQueues[c] \in indPoolForTrain
              /\ (PostLo(qP) <= c[1] /\ c[1] < QueueLen(qP)) =>
                     digitQueues[c] \in indPoolForPostTrain
              /\ c[1] >= QueueLen(qP) => digitQueues[c] = -1
        /\ \A c, d \in DOMAIN digitQueues :
              (c[2] = d[2] /\ PostLo(qP) <= c[1] /\ c[1] < QueueLen(qP)
                 /\ d[1] < PostLo(qP)) => digitQueues[c] # digitQueues[d]

\* the queues of two classes are complete, with two sniffs of two training
\* samples of the second class
C14_Witness ==
    /\ Subsampled /\ digitQueues # NoMat
    /\ qP.classNum = 2 /\ qP.num_sniffs = 2 /\ qP.tr_per_class = 2
    /\ digitQueues[<<TrainLo(qP) + 2, 1>>] = digitQueues[<<TrainLo(qP), 1>>]
    /\ digitQueues[<<TrainLo(qP) + 1, 1>>] # digitQueues[<<TrainLo(qP), 1>>]

\* C15: for every class, valX holds exactly the val_per_class post-training
\* samples of the class's queue and never a training sample, and trainX
\* holds exactly the tr_per_class training samples of the class, which are
\* distinct.
C15_TrainValSets ==
    (step = "moth" /\ valX # NoMat) =>
        \A cl \in class_labels(qP) :
            /\ \A k \in 0 .. (qP.val_per_class - 1) :
                  /\ valX[cl * qP.val_per_class + k] =
                        digitQueues[<<PostLo(qP) + k, cl>>]
                  /\ valX[cl * qP.val_per_class + k] \notin indPoolForTrain
            /\ \A k \in 0 .. (qP.tr_per_class - 1) :
                  trainX[cl * qP.tr_per_class + k] =
                        digitQueues[<<TrainLo(qP) + k, cl>>]
            /\ \A k, l \in 0 .. (qP.tr_per_class - 1) :
                  k # l => trainX[cl * qP.tr_per_class + k] #
                              trainX[cl * qP.tr_per_class + l]


\* the summaries with the pre-training values in the post-training fields
NaiveOf(recs) ==
    [k \in DOMAIN recs |->
        [recs[k] EXCEPT !.postMeanResp = recs[k].preMeanResp,
                        !.postStdResp = recs[k].preStdResp,
                        !.postTrainOdorResp = recs[k].preTrainOdorResp]]

ClassifierSteps ==
    {"naiveLogL", "trainedLogL", "naiveThresholding", "trainedThresholding"}

\* what the classifier called at a step returns on the records given
Reclassified(at, h) ==
    CASE at = "naiveLogL" ->
            classify_digits_log_likelihood(Records(h, respNaive))
      [] at = "trainedLogL" ->
            classify_digits_log_likelihood(Records(h, respOrig))
      [] at = "naiveThresholding" ->
            classify_digits_thresholding(Records(h, respNaive),
                                         homeGain, -1, 10)
      [] at = "trainedThresholding" ->
            classify_digits_thresholding(Records(h, respOrig),
                                         homeGain, -1, 10)

OutputOf(at) ==
    CASE at = "naiveLogL" -> "outputNaiveLogL"
      [] at = "trainedLogL" -> "outputTrainedLogL"
      [] at = "naiveThresholding" -> "outputNaiveThresholding"
      [] at = "trainedThresholding" -> "outputTrainedThresholding"

IsArgMax(recs, s, p) ==
    /\ \A c \in ClassesOf(recs) : LogLik(recs, s, p) >= LogLik(recs, s, c)
    /\ \A c \in ClassesOf(recs) :
          c < p => LogLik(recs, s, c) < LogLik(recs, s, p)

\* every stimulus lies, on every neuron, closer in std units to the mean of
\* its own class than to the mean of any other class
Separated(recs) ==
    \A e \in DOMAIN recs : \A s \in DOMAIN recs[e].odorClass :
        \A c \in ClassesOf(recs) \ {recs[e].odorClass[s]} :
            LET own == recs[e].odorClass[s]
                x == recs[e].postTrainOdorResp[s]
                dOwn == x - recs[e].postMeanResp[own + 1]
                dOther == x - recs[e].postMeanResp[c + 1]
                sdOwn == Floored(recs[e].postStdResp[own + 1])
                sdOther == Floored(recs[e].postStdResp[c + 1])
            IN  dOwn * dOwn * sdOther * sdOther
                   < dOther * dOther * sdOwn * sdOwn

\* on every neuron the classes have the same std
EqualStds(recs) ==
    \A e \in DOMAIN recs : \A c, d \in DOMAIN recs[e].postStdResp :
        Floored(recs[e].postStdResp[c]) = Floored(recs[e].postStdResp[d])

PredictsArgMax ==
    \A s \in DOMAIN enResp[1].odorClass :
        IsArgMax(enResp, s,
                 ArgMaxLogLik(enResp, s, SetMax(ClassesOf(enResp))))

AllCorrect(out) ==
    /\ out.total_acc = 100
    /\ \A c \in DOMAIN out.acc_perc : out.acc_perc[c] = 100

\* C13, as stated: the log-likelihood classifier predicts for every
\* stimulus the class of maximal summed Gaussian log-likelihood, the lowest
\* among tied classes; and whenever every stimulus lies closest, in std
\* units, to the mean of its own class, the total accuracy is 100%.
C13_SeparatedIsAccurate ==
    ("outputTrainedLogL" \in DOMAIN outputs) =>
        /\ PredictsArgMax
        /\ Separated(enResp) => AllCorrect(outputs["outputTrainedLogL"])

\* C13, amended: the same, for responses whose classes have the same std on
\* every neuron.
C13_SeparatedEqualStdsIsAccurate ==
    ("outputTrainedLogL" \in DOMAIN outputs) =>
        /\ PredictsArgMax
        /\ (Separated(enResp) /\ EqualStds(enResp)) =>
               AllCorrect(outputs["outputTrainedLogL"])

\* the classifier has returned 100% on separated responses of two neurons
\* with a std of 2 for both classes
C13_Witness ==
    /\ "outputTrainedLogL" \in DOMAIN outputs
    /\ Len(enResp) = 2 /\ enResp[1].postStdResp = <<2, 2>>
    /\ Separated(enResp) /\ EqualStds(enResp)
    /\ AllCorrect(outputs["outputTrainedLogL"])


\* the place of a step in the documented order of a run
StepNum ==
    CASE step \in {"queue", "baseline", "training", "postTrain", "trainX"} -> 1
      [] step \in {"moth", "conn", "K2E", "save"} -> 2
      [] step = "expParams" -> 3
      [] step \in {"sde", "sdeLoop"} -> 4
      [] step = "results" -> 5
      [] step \in {"deepcopy", "substitute"} -> 6
      [] step \in ClassifierSteps \cup {"classified"} -> 7
      [] step = "crashed" -> 8

MatricesExist ==
    /\ F2R # NoMat /\ Rspont # NoMat /\ R2G # NoMat /\ R2P # NoMat
    /\ R2L # NoMat /\ L2G # NoMat /\ L2R # NoMat /\ L2P # NoMat
    /\ L2L # NoMat /\ P2K # NoMat /\ K2E # NoMat
    /\ pc = "return" /\ err = ""

\* C16: within a run the queue is subsampled, then the moth is created and
\* filled with its matrices, then the experiment parameters are built, then
\* the simulation runs, then the responses are aggregated, then the
\* classifiers are called: what a step needs exists when the step begins,
\* the simulation does not start without the connection matrices, and no
\* classifier has returned before the simulation reached its last time step.
C16_DriverOrder ==
    /\ (StepNum \in 2 .. 7) => (digitQueues # NoMat /\ valX # NoMat)
    /\ (StepNum = 1) => (pc = "idle" /\ NoMatrices /\ NoSim /\ NoResp)
    /\ (StepNum \in 3 .. 7) => MatricesExist
    /\ (StepNum <= 2) => (NoSim /\ NoResp)
    /\ (StepNum \in 4 .. 7) => expP # NoMat
    /\ (StepNum = 3) => (expP = NoMat /\ rate = NoMat)
    /\ (StepNum \in 5 .. 7) => (rate # NoMat /\ t = expP.stop)
    /\ (StepNum <= 5) => NoResp
    /\ (StepNum = 6) => (respOrig # NoMat /\ outputs = NoMat)
    /\ (outputs # NoMat) => (StepNum = 7 /\ respNaive # NoMat)
    /\ (StepNum = 8) => (outputs = NoMat /\ respOrig = NoMat)

\* a run has subsampled its queue, built its matrices, simulated to the last
\* time step, aggregated, and called the four classifiers
C16_Witness ==
    /\ step = "classified" /\ MatricesExist /\ t = expP.stop
    /\ digitQueues # NoMat /\ paramsPkl
    /\ DOMAIN outputs = { OutputOf(at) : at \in ClassifierSteps }

====
